---- MODULE Spec2Model ----
(***************************************************************************)
(* A model of survival-analysis/src/sample/univariate.rs: the ingestion    *)
(* helper FromEvents, the validating constructor LeftTruncation::new and   *)
(* the LogLikelihood implementations of the observation schemes.           *)
(*                                                                         *)
(* The element type F is a binary floating-point type (f32 or f64).  It is *)
(* modelled with the exponent range of the real type and a significand of  *)
(* Prec bits: every operation computes the exact result and rounds it to   *)
(* nearest, ties to even, with subnormals, signed zeros, infinities and    *)
(* NaN, as IEEE 754 arithmetic does.                                       *)
(***************************************************************************)
EXTENDS Integers, Sequences, FiniteSets, TLC

VARIABLES input, dist, sample, ret, pc

vars == <<input, dist, sample, ret, pc>>

----------------------------------------------------------------------------
(* Bounds of the model *)

\* significand bits of the modelled floating-point types
Prec == 3
\* longest event, flag, time or weight sequence
MaxLen == 3

----------------------------------------------------------------------------
(* The floating-point element type F *)

\* exponent of the smallest normal f32, 2^-126
F32MinExp == -126
\* exponent of the largest f32 binade, 2^127
F32MaxExp == 127
\* exponent of the smallest normal f64, 2^-1022
F64MinExp == -1022
\* exponent of the largest f64 binade, 2^1023
F64MaxExp == 1023

Formats == {"f32", "f64"}

\* exponent of the quantum (the smallest subnormal) of a format
Emin(fmt) == (IF fmt = "f32" THEN F32MinExp ELSE F64MinExp) - (Prec - 1)
\* largest exponent a full significand may carry
Emax(fmt) == (IF fmt = "f32" THEN F32MaxExp ELSE F64MaxExp) - (Prec - 1)

RECURSIVE Pow2(_)
Pow2(k) == IF k <= 0 THEN 1 ELSE 2 * Pow2(k - 1)

RECURSIVE BitLen(_)
BitLen(n) == IF n <= 0 THEN 0 ELSE 1 + BitLen(n \div 2)

MaxOf(a, b) == IF a >= b THEN a ELSE b

\* a value is (-1)^sgn * m * 2^e
NaN == [cls |-> "nan", sgn |-> 0, m |-> 0, e |-> 0]
Inf(s) == [cls |-> "inf", sgn |-> s, m |-> 0, e |-> 0]
Zero(s) == [cls |-> "fin", sgn |-> s, m |-> 0, e |-> 0]
Fin(s, m, e) == [cls |-> "fin", sgn |-> s, m |-> m, e |-> e]

IsNaN(x) == x.cls = "nan"
IsInf(x) == x.cls = "inf"
IsFin(x) == x.cls = "fin"
IsZero(x) == x.cls = "fin" /\ x.m = 0

\* num * 2^e (num > 0) rounded to the format: nearest, ties to even
RoundFin(fmt, s, num, e) ==
    IF num = 0 THEN Zero(s)
    ELSE LET bl == BitLen(num)
             sh == MaxOf(bl - Prec, Emin(fmt) - e)
         IN  IF sh > bl + 1 THEN Zero(s)
             ELSE IF sh <= 0
             THEN IF e + sh > Emax(fmt) THEN Inf(s)
                  ELSE Fin(s, num * Pow2(0 - sh), e + sh)
             ELSE LET q  == num \div Pow2(sh)
                      r  == num % Pow2(sh)
                      hf == Pow2(sh - 1)
                      q1 == IF r > hf \/ (r = hf /\ q % 2 = 1) THEN q + 1 ELSE q
                      cy == q1 = Pow2(Prec)
                      m1 == IF cy THEN Pow2(Prec - 1) ELSE q1
                      e1 == IF cy THEN e + sh + 1 ELSE e + sh
                  IN  IF m1 = 0 THEN Zero(s)
                      ELSE IF e1 > Emax(fmt) THEN Inf(s)
                      ELSE Fin(s, m1, e1)

\* the small integer n as a value of the format
FromInt(fmt, n) == IF n >= 0 THEN RoundFin(fmt, 0, n, 0) ELSE RoundFin(fmt, 1, 0 - n, 0)

FNeg(x) == IF IsNaN(x) THEN NaN ELSE [x EXCEPT !.sgn = 1 - x.sgn]

FAbs(x) == IF IsNaN(x) THEN NaN ELSE [x EXCEPT !.sgn = 0]

FAdd(fmt, a, b) ==
    IF IsNaN(a) \/ IsNaN(b) THEN NaN
    ELSE IF IsInf(a) THEN (IF IsInf(b) /\ a.sgn # b.sgn THEN NaN ELSE a)
    ELSE IF IsInf(b) THEN b
    ELSE IF IsZero(a) /\ IsZero(b) THEN Zero(IF a.sgn = b.sgn THEN a.sgn ELSE 0)
    ELSE IF IsZero(a) THEN b
    ELSE IF IsZero(b) THEN a
    ELSE LET hi == IF a.e >= b.e THEN a ELSE b
             lo == IF a.e >= b.e THEN b ELSE a
             d  == hi.e - lo.e
         IN  IF d > 2 * Prec + 2 THEN hi
             ELSE LET sum == (IF hi.sgn = 1 THEN 0 - hi.m * Pow2(d) ELSE hi.m * Pow2(d))
                             + (IF lo.sgn = 1 THEN 0 - lo.m ELSE lo.m)
                  IN  IF sum = 0 THEN Zero(0)
                      ELSE IF sum < 0 THEN RoundFin(fmt, 1, 0 - sum, lo.e)
                      ELSE RoundFin(fmt, 0, sum, lo.e)

FSub(fmt, a, b) == FAdd(fmt, a, FNeg(b))

FMul(fmt, a, b) ==
    IF IsNaN(a) \/ IsNaN(b) THEN NaN
    ELSE LET s == (a.sgn + b.sgn) % 2
         IN  IF IsInf(a) \/ IsInf(b)
             THEN (IF IsZero(a) \/ IsZero(b) THEN NaN ELSE Inf(s))
             ELSE IF IsZero(a) \/ IsZero(b) THEN Zero(s)
             ELSE RoundFin(fmt, s, a.m * b.m, a.e + b.e)

FDiv(fmt, a, b) ==
    IF IsNaN(a) \/ IsNaN(b) THEN NaN
    ELSE LET s == (a.sgn + b.sgn) % 2
         IN  IF IsInf(a) THEN (IF IsInf(b) THEN NaN ELSE Inf(s))
             ELSE IF IsInf(b) THEN Zero(s)
             ELSE IF IsZero(b) THEN (IF IsZero(a) THEN NaN ELSE Inf(s))
             ELSE IF IsZero(a) THEN Zero(s)
             ELSE LET k  == 2 * Prec + 2
                      q  == (a.m * Pow2(k)) \div b.m
                      st == IF (a.m * Pow2(k)) % b.m = 0 THEN 0 ELSE 1
                  IN  RoundFin(fmt, s, 2 * q + st, a.e - b.e - k - 1)

\* |a| < |b| for finite a, b
MagLt(a, b) ==
    IF b.m = 0 THEN FALSE
    ELSE IF a.m = 0 THEN TRUE
    ELSE LET oa == a.e + BitLen(a.m)
             ob == b.e + BitLen(b.m)
         IN  IF oa # ob THEN oa < ob
             ELSE IF a.e >= b.e THEN a.m * Pow2(a.e - b.e) < b.m
             ELSE a.m < b.m * Pow2(b.e - a.e)

\* the comparison a < b of the element type: false when either is NaN
FLt(a, b) ==
    IF IsNaN(a) \/ IsNaN(b) THEN FALSE
    ELSE IF IsInf(a) THEN a.sgn = 1 /\ ~(IsInf(b) /\ b.sgn = 1)
    ELSE IF IsInf(b) THEN b.sgn = 0
    ELSE IF IsZero(a) /\ IsZero(b) THEN FALSE
    ELSE IF a.sgn # b.sgn THEN a.sgn = 1
    ELSE IF a.sgn = 0 THEN MagLt(a, b)
    ELSE MagLt(b, a)

\* the comparison a == b of the element type: -0 == +0, NaN equals nothing
FEq(a, b) ==
    IF IsNaN(a) \/ IsNaN(b) THEN FALSE
    ELSE IF IsZero(a) /\ IsZero(b) THEN TRUE
    ELSE a = b

FLe(a, b) == FLt(a, b) \/ FEq(a, b)

FGt(a, b) == FLt(b, a)

----------------------------------------------------------------------------
(* F::ln, num_traits::clamp and F::from_f64 *)

\* ln 2 in units of 2^-20
Ln2 == 726817

\* ln k in units of 2^-20, for the odd k a significand can hold
LnOdd(k) ==
    CASE k = 1 -> 0        [] k = 3 -> 1151978  [] k = 5 -> 1687618
      [] k = 7 -> 2040435  [] k = 9 -> 2303957  [] k = 11 -> 2514375
      [] k = 13 -> 2689544 [] k = 15 -> 2839596 [] k = 17 -> 2970840
      [] k = 19 -> 3087468 [] k = 21 -> 3192413 [] k = 23 -> 3287804
      [] k = 25 -> 3375236 [] k = 27 -> 3455935 [] k = 29 -> 3530866
      [] k = 31 -> 3600797

RECURSIVE TrailingZeros(_)
TrailingZeros(n) == IF n % 2 = 1 THEN 0 ELSE 1 + TrailingZeros(n \div 2)

\* F::ln: ln(+-0) = -inf, ln of a negative number is NaN, ln(+inf) = +inf
Ln(fmt, x) ==
    IF IsNaN(x) THEN NaN
    ELSE IF IsZero(x) THEN Inf(1)
    ELSE IF x.sgn = 1 THEN NaN
    ELSE IF IsInf(x) THEN Inf(0)
    ELSE LET k == TrailingZeros(x.m)
             v == LnOdd(x.m \div Pow2(k)) + (x.e + k) * Ln2
         IN  IF v = 0 THEN Zero(0)
             ELSE IF v < 0 THEN RoundFin(fmt, 1, 0 - v, -20)
             ELSE RoundFin(fmt, 0, v, -20)

\* num_traits::clamp(input, min, max)
clamp(x, min, max) == IF FLt(x, min) THEN min ELSE IF FGt(x, max) THEN max ELSE x

\* the f64 literal 1e50 (0.5345529420184392 * 2^167) at the model's precision
Lit1e50 == RoundFin("f64", 0, 35873241, 141)

None == [some |-> FALSE]
Some(v) == [some |-> TRUE, v |-> v]

\* F::from_f64(x): the identity for f64; for f32 the cast `x as f32`, which
\* rounds to f32 and overflows to an infinity.  For an f64 that no f32 can
\* hold, the num-traits releases with the saturating cast return the
\* infinity (cast = "infinity") and the releases before them return None
\* (cast = "none").
from_f64(fmt, cast, x) ==
    IF fmt = "f64" \/ ~IsFin(x) THEN Some(x)
    ELSE LET y == RoundFin("f32", x.sgn, x.m, x.e)
         IN  IF IsInf(y) /\ cast # "infinity" THEN None ELSE Some(y)

----------------------------------------------------------------------------
(* The array substrate (ndarray), for arrays of one dimension *)

\* elementwise a - b of two arrays of one length
ArrSub(fmt, a, b) == [i \in 1..Len(a) |-> FSub(fmt, a[i], b[i])]

\* elementwise a * b of two arrays of one length
ArrMul(fmt, a, b) == [i \in 1..Len(a) |-> FMul(fmt, a[i], b[i])]

\* ArrayBase::sum: a fold from F::zero(), in index order for fewer than
\* eight elements
RECURSIVE ArrSumFrom(_, _, _, _)
ArrSumFrom(fmt, a, i, acc) ==
    IF i > Len(a) THEN acc ELSE ArrSumFrom(fmt, a, i + 1, FAdd(fmt, acc, a[i]))

ArrSum(fmt, a) == ArrSumFrom(fmt, a, 1, Zero(0))

----------------------------------------------------------------------------
(* FromEvents *)

Uncensored(time) == [scheme |-> "Uncensored", time |-> time]
RightCensored(time) == [scheme |-> "RightCensored", time |-> time]
LeftCensored(time) == [scheme |-> "LeftCensored", time |-> time]
IntervalCensored(start, stop) ==
    [scheme |-> "IntervalCensored", start |-> start, stop |-> stop]
PartiallyObserved(observed, censored) ==
    [scheme |-> "PartiallyObserved", observed |-> observed, censored |-> censored]

\* C::from(vec) for the censoring type C the caller names
FromVec(ctype, vec) ==
    IF ctype = "RightCensored" THEN RightCensored(vec) ELSE LeftCensored(vec)

\* C::from((start, stop))
FromVecPair(start, stop) == IntervalCensored(start, stop)

MinOf(a, b) == IF a <= b THEN a ELSE b

\* the loop over events.into_iter().zip(event_observed), from pair i on
RECURSIVE from_events_loop(_, _, _, _, _)
from_events_loop(events, event_observed, i, observed_events, censored_events) ==
    IF i > MinOf(Len(events), Len(event_observed))
    THEN <<observed_events, censored_events>>
    ELSE IF event_observed[i]
    THEN from_events_loop(events, event_observed, i + 1,
                          Append(observed_events, events[i]), censored_events)
    ELSE from_events_loop(events, event_observed, i + 1,
                          observed_events, Append(censored_events, events[i]))

\* a plausible slip: an observed event is pushed on both vectors
from_events_dup(events, event_observed, ctype) ==
    LET r == from_events_loop(events, event_observed, 1, <<>>, <<>>)
        n == MinOf(Len(events), Len(event_observed))
    IN  PartiallyObserved(Uncensored(r[1]),
            FromVec(ctype, IF n > 0 /\ event_observed[n]
                           THEN Append(r[2], events[n]) ELSE r[2]))

\* a plausible slip: censored events are pushed at the front
from_events_unstable(events, event_observed, ctype) ==
    LET r == from_events_loop(events, event_observed, 1, <<>>, <<>>)
    IN  PartiallyObserved(Uncensored(r[1]),
            FromVec(ctype, [i \in 1..Len(r[2]) |-> r[2][Len(r[2]) + 1 - i]]))

\* FromEvents<F>::from_events
from_events(events, event_observed, ctype) ==
    LET r == from_events_loop(events, event_observed, 1, <<>>, <<>>)
    IN  PartiallyObserved(Uncensored(r[1]), FromVec(ctype, r[2]))

\* the loop of the interval form, from pair i on
RECURSIVE from_events_pair_loop(_, _, _, _, _, _)
from_events_pair_loop(events, event_observed, i, observed_events, censored_starts, censored_stops) ==
    IF i > MinOf(Len(events), Len(event_observed))
    THEN <<observed_events, censored_starts, censored_stops>>
    ELSE IF event_observed[i]
    THEN from_events_pair_loop(events, event_observed, i + 1,
             Append(observed_events, events[i][2]), censored_starts, censored_stops)
    ELSE from_events_pair_loop(events, event_observed, i + 1, observed_events,
             Append(censored_starts, events[i][1]),
             Append(censored_stops, events[i][2]))

\* a plausible slip: the observed record keeps its start, not its stop
from_events_pair_start(events, event_observed) ==
    LET r == from_events_pair_loop(events, event_observed, 1, <<>>, <<>>, <<>>)
        n == MinOf(Len(events), Len(event_observed))
        ix == {i \in 1..n : event_observed[i]}
    IN  PartiallyObserved(
            Uncensored([k \in 1..Len(r[1]) |->
                events[CHOOSE i \in ix :
                    Cardinality({j \in ix : j <= i}) = k][1]]),
            FromVecPair(r[2], r[3]))

\* FromEvents<(F, F)>::from_events
from_events_pair(events, event_observed) ==
    LET r == from_events_pair_loop(events, event_observed, 1, <<>>, <<>>, <<>>)
    IN  PartiallyObserved(Uncensored(r[1]), FromVecPair(r[2], r[3]))

----------------------------------------------------------------------------
(* Inputs *)

\* the f64 value n
F(n) == FromInt("f64", n)

\* event times
Times == {F(1), F(2), F(3)}

\* interval events (start, stop)
Intervals == {<<F(1), F(2)>>, <<F(1), F(3)>>, <<F(2), F(2)>>, <<F(2), F(3)>>}

SeqsUpTo(S, n) == UNION {[1..k -> S] : k \in 0..n}

NoValue == [scheme |-> "none"]

----------------------------------------------------------------------------
(* Ingestion: raw records -> PartiallyObserved *)

InitIngest ==
    /\ \/ \E ev \in SeqsUpTo(Times, MaxLen), fl \in SeqsUpTo(BOOLEAN, MaxLen + 1),
             ct \in {"RightCensored", "LeftCensored"} :
             input = [kind |-> "events", events |-> ev, event_observed |-> fl,
                      ctype |-> ct]
       \/ \E ev \in SeqsUpTo(Intervals, MaxLen), fl \in SeqsUpTo(BOOLEAN, MaxLen + 1) :
             input = [kind |-> "intervals", events |-> ev, event_observed |-> fl,
                      ctype |-> "IntervalCensored"]
    /\ dist = NoValue
    /\ sample = NoValue
    /\ ret = NoValue
    /\ pc = "start"

FromEventsScalar ==
    /\ pc = "start"
    /\ input.kind = "events"
    /\ sample' = from_events(input.events, input.event_observed, input.ctype)
    /\ pc' = "built"
    /\ UNCHANGED <<input, dist, ret>>

FromEventsInterval ==
    /\ pc = "start"
    /\ input.kind = "intervals"
    /\ sample' = from_events_pair(input.events, input.event_observed)
    /\ pc' = "built"
    /\ UNCHANGED <<input, dist, ret>>

NextIngest == FromEventsScalar \/ FromEventsInterval

SpecIngest == InitIngest /\ [][NextIngest]_vars

\* the zipped (event, flag) pairs
Zipped == 1..MinOf(Len(input.events), Len(input.event_observed))
\* the zipped pairs whose flag is b
Flagged(b) == {i \in Zipped : input.event_observed[i] = b}
\* the place of pair i among the pairs with its flag
Rank(i) == Cardinality({j \in Flagged(input.event_observed[i]) : j <= i})

Built(kind) == pc = "built" /\ input.kind = kind

\* C1: with at least as many flags as events, the observed branch of the
\* scalar from_events is the events flagged true and the censored branch the
\* events flagged false, each in input order and unchanged; flags past the
\* last event change nothing.
C1_StablePartition ==
    (Built("events") /\ Len(input.event_observed) >= Len(input.events)) =>
        /\ sample.observed.scheme = "Uncensored"
        /\ sample.censored.scheme = input.ctype
        /\ Len(sample.observed.time) = Cardinality(Flagged(TRUE))
        /\ Len(sample.censored.time) = Cardinality(Flagged(FALSE))
        /\ Zipped = 1..Len(input.events)
        /\ \A i \in Flagged(TRUE) : sample.observed.time[Rank(i)] = input.events[i]
        /\ \A i \in Flagged(FALSE) : sample.censored.time[Rank(i)] = input.events[i]

C1_Witness ==
    /\ Built("events")
    /\ Len(input.event_observed) > Len(input.events)
    /\ input.event_observed[1] = FALSE
    /\ Len(sample.observed.time) = 2
    /\ sample.observed.time[1] # sample.observed.time[2]
    /\ Len(sample.censored.time) = 1

BranchSizes ==
    Len(sample.observed.time)
    + (IF input.kind = "events" THEN Len(sample.censored.time)
       ELSE Len(sample.censored.start))

\* C2 as stated: for event and flag sequences of any lengths the branch sizes
\* sum to the number of events supplied.
C2_SizesSumToEvents ==
    pc = "built" => BranchSizes = Len(input.events)

\* C2, amended: the branch sizes sum to the number of zipped (event, flag)
\* pairs, the smaller of the two lengths; this is the number of events
\* whenever there are at least as many flags as events.
C2_SizesSumToZipped ==
    pc = "built" =>
        /\ BranchSizes = MinOf(Len(input.events), Len(input.event_observed))
        /\ Len(input.event_observed) >= Len(input.events)
               => BranchSizes = Len(input.events)

C2_Witness ==
    /\ pc = "built"
    /\ Len(input.event_observed) < Len(input.events)
    /\ Len(input.event_observed) >= 2
    /\ BranchSizes = Len(input.event_observed)
    /\ Len(sample.observed.time) >= 1

\* C3: the interval from_events sends the stop of each record flagged
\* observed to the observed branch and the start and stop of each record
\* flagged unobserved to one index of the censored start and stop sequences;
\* the two censored sequences have one length and all three keep input order.
C3_IntervalRouting ==
    Built("intervals") =>
        /\ sample.observed.scheme = "Uncensored"
        /\ sample.censored.scheme = "IntervalCensored"
        /\ Len(sample.observed.time) = Cardinality(Flagged(TRUE))
        /\ Len(sample.censored.start) = Cardinality(Flagged(FALSE))
        /\ Len(sample.censored.stop) = Len(sample.censored.start)
        /\ \A i \in Flagged(TRUE) : sample.observed.time[Rank(i)] = input.events[i][2]
        /\ \A i \in Flagged(FALSE) :
               /\ sample.censored.start[Rank(i)] = input.events[i][1]
               /\ sample.censored.stop[Rank(i)] = input.events[i][2]

C3_Witness ==
    /\ Built("intervals")
    /\ Len(sample.observed.time) >= 1
    /\ Len(sample.censored.start) = 2
    /\ \E i \in Flagged(TRUE) : input.events[i][1] # input.events[i][2]
    /\ sample.censored.start[1] # sample.censored.start[2]

----------------------------------------------------------------------------
(* LeftTruncation *)

LeftTruncation(entry_time) == [scheme |-> "LeftTruncation", entry_time |-> entry_time]

Ok(v) == [ok |-> TRUE, value |-> v]
Err == [ok |-> FALSE]

\* LeftTruncation::new
LeftTruncation_new(entry_time) ==
    IF \E i \in 1..Len(entry_time) : FLe(entry_time[i], Zero(0))
    THEN Err
    ELSE Ok(LeftTruncation(entry_time))

\* distribution.cumulative_hazard(t) with an array result: the table of the
\* distribution applied to each time; NaN where the time is NaN
cumulative_hazard(d, t) ==
    [i \in 1..Len(t) |-> IF IsNaN(t[i]) THEN NaN ELSE d.cumulative_hazard[t[i]]]

Vector(v) == [kind |-> "vector", v |-> v]
Scalar(v) == [kind |-> "scalar", v |-> v]
Panic == [kind |-> "panic"]

\* a plausible slip: the correction is negated, as RightCensored's term is
LeftTruncation_log_likelihood_neg(self, d) ==
    Vector([i \in 1..Len(self.entry_time) |->
                FNeg(cumulative_hazard(d, self.entry_time)[i])])

\* LogLikelihood<D, Array1<F>> for LeftTruncation
LeftTruncation_log_likelihood(self, d) ==
    Vector(cumulative_hazard(d, self.entry_time))

\* the smallest positive value of a format
Tiny(fmt) == Fin(0, 1, Emin(fmt))

\* entry times a caller may pass: NaN, negative, both zeros, positive
EntryTimes(fmt) ==
    {NaN, FromInt(fmt, -1), Zero(1), Zero(0), Tiny(fmt),
     FromInt(fmt, 1), FromInt(fmt, 2), FromInt(fmt, 3)}

PositiveTimes(fmt) ==
    {Tiny(fmt), FromInt(fmt, 1), FromInt(fmt, 2), FromInt(fmt, 3)}

HazardValues(fmt) == {Zero(0), FromInt(fmt, 1), FromInt(fmt, 3)}

\* the cumulative hazards of the distributions: integrals of a rate from 0,
\* hence non-negative and non-decreasing in the time
CumulativeHazards(fmt) ==
    {h \in [PositiveTimes(fmt) -> HazardValues(fmt)] :
        \A s, t \in PositiveTimes(fmt) : FLt(s, t) => FLe(h[s], h[t])}

InitTruncation ==
    /\ \E fmt \in Formats :
           \E et \in SeqsUpTo(EntryTimes(fmt), MaxLen) :
               input = [kind |-> "entry", fmt |-> fmt, entry_time |-> et]
    /\ dist = NoValue
    /\ sample = NoValue
    /\ ret = NoValue
    /\ pc = "start"

LeftTruncationNew ==
    /\ pc = "start"
    /\ input.kind = "entry"
    /\ sample' = LeftTruncation_new(input.entry_time)
    /\ pc' = "built"
    /\ UNCHANGED <<input, dist, ret>>

LeftTruncationLogLikelihood ==
    /\ pc = "built"
    /\ input.kind = "entry"
    /\ sample.ok
    /\ \E h \in CumulativeHazards(input.fmt) :
           /\ dist' = [cumulative_hazard |-> h]
           /\ ret' = LeftTruncation_log_likelihood(sample.value, dist')
    /\ pc' = "evaluated"
    /\ UNCHANGED <<input, sample>>

\* the caller evaluates again, under the same distribution, a sample whose
\* entry time at one index is larger
IncreaseEntryTime ==
    /\ pc = "evaluated"
    /\ input.kind = "entry"
    /\ \E i \in 1..Len(input.entry_time), t \in PositiveTimes(input.fmt) :
           /\ FLt(input.entry_time[i], t)
           /\ input' = [input EXCEPT !.entry_time[i] = t]
           /\ sample' = LeftTruncation_new(input'.entry_time)
           /\ ret' = LeftTruncation_log_likelihood(sample'.value, dist)
    /\ pc' = "reevaluated"
    /\ UNCHANGED dist

NextTruncation == LeftTruncationNew \/ LeftTruncationLogLikelihood \/ IncreaseEntryTime

SpecTruncation == InitTruncation /\ [][NextTruncation]_vars

\* an entry time that is zero or negative
NonPositive(t) == ~IsNaN(t) /\ (t.sgn = 1 \/ IsZero(t))
\* an entry time that is greater than zero
Positive(t) == ~IsNaN(t) /\ t.sgn = 0 /\ ~IsZero(t)

\* C4 as stated: new fails exactly when some entry time is <= 0 and otherwise
\* wraps the entry times unchanged; hence a value obtained from new holds
\* only entry times > 0, and no entry time <= 0 reaches the evaluation.
C4_ValidatedEntryTimes ==
    (input.kind = "entry" /\ pc # "start") =>
        /\ ~sample.ok <=> \E i \in 1..Len(input.entry_time) :
                              NonPositive(input.entry_time[i])
        /\ sample.ok => sample.value.entry_time = input.entry_time
        /\ sample.ok => \A i \in 1..Len(sample.value.entry_time) :
                            Positive(sample.value.entry_time[i])

\* what of C4 the code does: new fails exactly when some entry time is <= 0,
\* and a value obtained from new holds no entry time <= 0
C4_NoNonPositiveEntry ==
    (input.kind = "entry" /\ pc # "start") =>
        /\ ~sample.ok <=> \E i \in 1..Len(input.entry_time) :
                              NonPositive(input.entry_time[i])
        /\ sample.ok => sample.value.entry_time = input.entry_time
        /\ sample.ok => \A i \in 1..Len(sample.value.entry_time) :
                            ~NonPositive(sample.value.entry_time[i])

----------------------------------------------------------------------------
(* IntervalCensored *)

\* distribution.survival(t) with an array result
survival(d, t) == [i \in 1..Len(t) |-> d.survival[t[i]]]

\* LogLikelihood<D, Array1<F>> for IntervalCensored
IntervalCensored_log_likelihood_array(fmt, cast, self, d) ==
    LET min == from_f64(fmt, cast, FNeg(Lit1e50))
        max == from_f64(fmt, cast, Lit1e50)
    IN  IF ~min.some \/ ~max.some THEN Panic
        ELSE LET diff == ArrSub(fmt, survival(d, self.start), survival(d, self.stop))
             IN  Vector([i \in 1..Len(diff) |->
                            clamp(Ln(fmt, diff[i]), min.v, max.v)])

\* LogLikelihood<D, F> for IntervalCensored
IntervalCensored_log_likelihood(fmt, cast, self, d) ==
    LET array == IntervalCensored_log_likelihood_array(fmt, cast, self, d)
    IN  IF array.kind = "panic" THEN Panic ELSE Scalar(ArrSum(fmt, array.v))

\* the builds: an element type and, for f32, the cast of the num-traits used
Builds == {<<"f32", "infinity">>, <<"f32", "none">>, <<"f64", "infinity">>}

\* interval samples: the events of from_events and one with stop < start
IntervalsAny == Intervals \cup {<<F(3), F(1)>>}

SurvivalValues == {Zero(0), RoundFin("f64", 0, 1, -2), RoundFin("f64", 0, 1, -1), F(1)}

\* survival functions: non-increasing in the time, within [0, 1]
Survivals ==
    {sv \in [Times -> SurvivalValues] :
        \A s, t \in Times : FLt(s, t) => FLe(sv[t], sv[s])}

InitInterval ==
    /\ \E b \in Builds, iv \in SeqsUpTo(IntervalsAny, MaxLen), sv \in Survivals :
           /\ input = [kind |-> "interval_censored", fmt |-> b[1], cast |-> b[2],
                       start |-> [i \in 1..Len(iv) |-> iv[i][1]],
                       stop |-> [i \in 1..Len(iv) |-> iv[i][2]]]
           /\ dist = [survival |-> sv]
    /\ sample = NoValue
    /\ ret = NoValue
    /\ pc = "start"

IntervalCensoredNew ==
    /\ pc = "start"
    /\ input.kind = "interval_censored"
    /\ sample' = FromVecPair(input.start, input.stop)
    /\ pc' = "built"
    /\ UNCHANGED <<input, dist, ret>>

IntervalLogLikelihoodArray ==
    /\ pc = "built"
    /\ input.kind = "interval_censored"
    /\ ret' = IntervalCensored_log_likelihood_array(input.fmt, input.cast, sample, dist)
    /\ pc' = "evaluated_array"
    /\ UNCHANGED <<input, dist, sample>>

IntervalLogLikelihoodScalar ==
    /\ pc = "built"
    /\ input.kind = "interval_censored"
    /\ ret' = IntervalCensored_log_likelihood(input.fmt, input.cast, sample, dist)
    /\ pc' = "evaluated_scalar"
    /\ UNCHANGED <<input, dist, sample>>

NextInterval ==
    IntervalCensoredNew \/ IntervalLogLikelihoodArray \/ IntervalLogLikelihoodScalar

SpecInterval == InitInterval /\ [][NextInterval]_vars

\* observation i has survival(start)[i] == survival(stop)[i]
Degenerate(i) == FEq(dist.survival[input.start[i]], dist.survival[input.stop[i]])

\* the entry the specification gives observation i:
\* clamp(ln(survival(start)[i] - survival(stop)[i]), -1e50, 1e50)
ClampedEntry(i) ==
    clamp(Ln(input.fmt, FSub(input.fmt, dist.survival[input.start[i]],
                                        dist.survival[input.stop[i]])),
          FNeg(Lit1e50), Lit1e50)

RECURSIVE SumOfEntries(_)
SumOfEntries(n) ==
    IF n = 0 THEN Zero(0) ELSE FAdd(input.fmt, SumOfEntries(n - 1), ClampedEntry(n))

\* C8 as stated: for f32 and for f64, the per-observation log-likelihood of
\* an observation with survival(start) == survival(stop) is the lower clamp
\* bound -1e50, never -infinity or NaN.
C8_ClampBoundary ==
    pc = "evaluated_array" =>
        \A i \in 1..Len(input.start) :
            Degenerate(i) =>
                /\ ret.kind = "vector"
                /\ IsFin(ret.v[i])
                /\ ret.v[i] = FNeg(Lit1e50)

\* C8 for the element type f64 alone
C8_ClampBoundaryF64 ==
    input.fmt = "f64" => C8_ClampBoundary

\* C10 as stated: the scalar log_likelihood is the sum of the entries
\* clamp(ln(survival(start)[i] - survival(stop)[i]), -1e50, 1e50), one per
\* observation, and 0 for a scheme with no observations.
C10_ScalarIsSumOfArray ==
    /\ pc = "evaluated_array" =>
           /\ ret.kind = "vector"
           /\ Len(ret.v) = Len(input.start)
           /\ \A i \in 1..Len(input.start) : ret.v[i] = ClampedEntry(i)
    /\ pc = "evaluated_scalar" =>
           /\ ret.kind = "scalar"
           /\ ret.v = SumOfEntries(Len(input.start))
           /\ Len(input.start) = 0 => ret.v = Zero(0)

\* C10 for the element type f64 alone
C10_ScalarIsSumOfArrayF64 ==
    input.fmt = "f64" => C10_ScalarIsSumOfArray

----------------------------------------------------------------------------
(* Weighted *)

Weighted(time, weight) == [scheme |-> "Weighted", time |-> time, weight |-> weight]

\* a plausible slip: the weighted sum is returned, not divided
Weighted_log_likelihood_sum(fmt, self, d) ==
    LET log_likelihood == LeftTruncation_log_likelihood(self.time, d)
    IN  Scalar(ArrSum(fmt, ArrMul(fmt, self.weight, log_likelihood.v)))

\* a plausible slip: the weights meet the contributions in reverse order
Weighted_log_likelihood_reversed(fmt, self, d) ==
    LET log_likelihood == LeftTruncation_log_likelihood(self.time, d)
        n == Len(self.weight)
    IN  Scalar(FDiv(fmt,
            ArrSum(fmt, ArrMul(fmt, [i \in 1..n |-> self.weight[n + 1 - i]],
                               log_likelihood.v)),
            ArrSum(fmt, self.weight)))

\* LogLikelihood<D, F> for Weighted<T, W>, with T = LeftTruncation
Weighted_log_likelihood(fmt, self, d) ==
    LET log_likelihood == LeftTruncation_log_likelihood(self.time, d)
    IN  Scalar(FDiv(fmt,
            ArrSum(fmt, ArrMul(fmt, self.weight, log_likelihood.v)),
            ArrSum(fmt, self.weight)))

WeightValues == {Zero(0), RoundFin("f64", 0, 1, -1), F(1), F(2), F(3)}

\* per-observation contributions: two cumulative hazards over Times
WeightedHazards ==
    {[t \in Times |-> FMul("f64", t, t)],
     [t \in Times |-> FSub("f64", t, F(1))]}

InitWeighted ==
    /\ \E n \in 0..MaxLen :
         \E et \in [1..n -> Times], w \in [1..n -> WeightValues] :
             input = [kind |-> "weighted", fmt |-> "f64", entry_time |-> et,
                      weight |-> w]
    /\ dist = NoValue
    /\ sample = NoValue
    /\ ret = NoValue
    /\ pc = "start"

WeightedNew ==
    /\ pc = "start"
    /\ input.kind = "weighted"
    /\ sample' = Weighted(LeftTruncation_new(input.entry_time).value, input.weight)
    /\ pc' = "built"
    /\ UNCHANGED <<input, dist, ret>>

WeightedLogLikelihood ==
    /\ pc = "built"
    /\ input.kind = "weighted"
    /\ \E h \in WeightedHazards :
           /\ dist' = [cumulative_hazard |-> h]
           /\ ret' = Weighted_log_likelihood(input.fmt, sample, dist')
    /\ pc' = "evaluated"
    /\ UNCHANGED <<input, sample>>

NextWeighted == WeightedNew \/ WeightedLogLikelihood

SpecWeighted == InitWeighted /\ [][NextWeighted]_vars

\* the inner per-observation contribution at index i
Contribution(i) == dist.cumulative_hazard[input.entry_time[i]]

RECURSIVE WeightedSum(_)
WeightedSum(n) ==
    IF n = 0 THEN Zero(0)
    ELSE FAdd(input.fmt, WeightedSum(n - 1),
              FMul(input.fmt, input.weight[n], Contribution(n)))

RECURSIVE WeightSum(_)
WeightSum(n) ==
    IF n = 0 THEN Zero(0) ELSE FAdd(input.fmt, WeightSum(n - 1), input.weight[n])

RECURSIVE ContributionSum(_)
ContributionSum(n) ==
    IF n = 0 THEN Zero(0) ELSE FAdd(input.fmt, ContributionSum(n - 1), Contribution(n))

WeightedEvaluated ==
    /\ pc = "evaluated"
    /\ input.kind = "weighted"
    /\ FLt(Zero(0), WeightSum(Len(input.weight)))

\* C5: for weights w with sum(w) > 0 and an inner vector v of the same
\* length, Weighted's log_likelihood is (sum of w[i]*v[i]) / (sum of w[i]),
\* w[i] multiplying v[i], and is divided by the sum of the weights.
C5_WeightedAverage ==
    WeightedEvaluated =>
        /\ ret.kind = "scalar"
        /\ ret.v = FDiv(input.fmt, WeightedSum(Len(input.weight)),
                                   WeightSum(Len(input.weight)))

C5_Witness ==
    /\ WeightedEvaluated
    /\ Len(input.weight) = 3
    /\ input.weight[1] # input.weight[3]
    /\ Contribution(1) # Contribution(3)
    /\ ~IsZero(input.weight[1])
    /\ ~IsZero(input.weight[3])
    /\ ret.v # WeightedSum(3)

\* all weights equal the constant c
Uniform(c) == Len(input.weight) > 0 /\ \A i \in 1..Len(input.weight) : input.weight[i] = c

\* the unweighted average sum(v) / len(v)
Average == FDiv(input.fmt, ContributionSum(Len(input.weight)),
                           FromInt(input.fmt, Len(input.weight)))

\* C6 as stated: for a non-empty inner vector and uniform weights c, the
\* log_likelihood is the unweighted average sum(v)/len(v), whatever c is.
C6_UniformWeights ==
    WeightedEvaluated =>
        \A c \in WeightValues : Uniform(c) => ret.v = Average

\* a power of two
PowerOfTwo(c) == IsFin(c) /\ c.sgn = 0 /\ c.m = Pow2(Prec - 1)

\* C6, amended: for a non-empty inner vector and uniform weights c that are
\* a power of two, the log_likelihood is the unweighted average
\* sum(v)/len(v) computed in the element type, the same for every such c.
C6_UniformPowerOfTwoWeights ==
    WeightedEvaluated =>
        \A c \in WeightValues : (Uniform(c) /\ PowerOfTwo(c)) => ret.v = Average

C6_Witness ==
    /\ WeightedEvaluated
    /\ Len(input.weight) = 3
    /\ Uniform(F(2))
    /\ Contribution(1) # Contribution(2)
    /\ ~IsZero(ret.v)
    /\ ret.v = Average

----------------------------------------------------------------------------
(* Uncensored, RightCensored, LeftCensored and PartiallyObserved, with the
   scalar result type O = F *)

\* distribution.log_hazard(t) with a scalar result
log_hazard_scalar(fmt, d, t) ==
    ArrSum(fmt, [i \in 1..Len(t) |-> d.log_hazard[t[i]]])

\* distribution.cumulative_hazard(t) with a scalar result
cumulative_hazard_scalar(fmt, d, t) ==
    ArrSum(fmt, [i \in 1..Len(t) |-> d.cumulative_hazard[t[i]]])

\* distribution.log_cumulative_density(t) with a scalar result
log_cumulative_density_scalar(fmt, d, t) ==
    ArrSum(fmt, [i \in 1..Len(t) |-> d.log_cumulative_density[t[i]]])

\* LogLikelihood<D, O> for Uncensored
Uncensored_log_likelihood(fmt, self, d) ==
    Scalar(FSub(fmt, log_hazard_scalar(fmt, d, self.time),
                     cumulative_hazard_scalar(fmt, d, self.time)))

\* LogLikelihood<D, O> for RightCensored
RightCensored_log_likelihood(fmt, self, d) ==
    Scalar(FNeg(cumulative_hazard_scalar(fmt, d, self.time)))

\* LogLikelihood<D, O> for LeftCensored
LeftCensored_log_likelihood(fmt, self, d) ==
    Scalar(log_cumulative_density_scalar(fmt, d, self.time))

\* censored.log_likelihood(distribution), by the type C of the censored part
censored_log_likelihood(fmt, cast, self, d) ==
    IF self.scheme = "RightCensored" THEN RightCensored_log_likelihood(fmt, self, d)
    ELSE IF self.scheme = "LeftCensored" THEN LeftCensored_log_likelihood(fmt, self, d)
    ELSE IntervalCensored_log_likelihood(fmt, cast, self, d)

\* a plausible slip: the censored part is subtracted
PartiallyObserved_log_likelihood_minus(fmt, cast, self, d) ==
    LET o == Uncensored_log_likelihood(fmt, self.observed, d)
        c == censored_log_likelihood(fmt, cast, self.censored, d)
    IN  IF c.kind = "panic" THEN Panic ELSE Scalar(FSub(fmt, o.v, c.v))

\* LogLikelihood<D, O> for PartiallyObserved
PartiallyObserved_log_likelihood(fmt, cast, self, d) ==
    LET o == Uncensored_log_likelihood(fmt, self.observed, d)
        c == censored_log_likelihood(fmt, cast, self.censored, d)
    IN  IF c.kind = "panic" THEN Panic ELSE Scalar(FAdd(fmt, o.v, c.v))

\* number of distributions
MaxRate == 2

\* the whole number k with F(k) = t
Whole(t) == CHOOSE k \in 1..3 : F(k) = t

\* the distribution of rate r: cumulative hazard r*t, hazard r*t,
\* survival 2^(-r*t)
Distribution(r) ==
    [log_hazard |-> [t \in Times |-> Ln("f64", FMul("f64", F(r), t))],
     cumulative_hazard |-> [t \in Times |-> FMul("f64", F(r), t)],
     survival |-> [t \in Times |-> RoundFin("f64", 0, 1, 0 - r * Whole(t))],
     log_cumulative_density |->
         [t \in Times |-> Ln("f64", FSub("f64", F(1),
                                RoundFin("f64", 0, 1, 0 - r * Whole(t))))]]

InitComposite ==
    /\ \E n \in 0..MaxLen :
         \/ \E ev \in [1..n -> Times], fl \in [1..n -> BOOLEAN],
               ct \in {"RightCensored", "LeftCensored"} :
               input = [kind |-> "events", events |-> ev, event_observed |-> fl,
                        ctype |-> ct]
         \/ \E ev \in [1..n -> Intervals], fl \in [1..n -> BOOLEAN] :
               input = [kind |-> "intervals", events |-> ev, event_observed |-> fl,
                        ctype |-> "IntervalCensored"]
    /\ dist = NoValue
    /\ sample = NoValue
    /\ ret = NoValue
    /\ pc = "start"

PartiallyObservedLogLikelihood ==
    /\ pc = "built"
    /\ input.kind \in {"events", "intervals"}
    /\ \E r \in 1..MaxRate, b \in Builds :
           /\ input.kind = "events" => b[1] = "f64"
           /\ dist' = Distribution(r) @@ [fmt |-> b[1], cast |-> b[2]]
           /\ ret' = PartiallyObserved_log_likelihood(b[1], b[2], sample, dist')
    /\ pc' = "evaluated"
    /\ UNCHANGED <<input, sample>>

NextComposite ==
    FromEventsScalar \/ FromEventsInterval \/ PartiallyObservedLogLikelihood

SpecComposite == InitComposite /\ [][NextComposite]_vars

RECURSIVE SumLogHazard(_)
SumLogHazard(n) ==
    IF n = 0 THEN Zero(0)
    ELSE FAdd(dist.fmt, SumLogHazard(n - 1), dist.log_hazard[sample.observed.time[n]])

RECURSIVE SumCumulativeHazard(_)
SumCumulativeHazard(n) ==
    IF n = 0 THEN Zero(0)
    ELSE FAdd(dist.fmt, SumCumulativeHazard(n - 1),
              dist.cumulative_hazard[sample.observed.time[n]])

\* log_likelihood(A, d) = log_hazard(A.time) - cumulative_hazard(A.time)
ObservedTerm ==
    FSub(dist.fmt, SumLogHazard(Len(sample.observed.time)),
                   SumCumulativeHazard(Len(sample.observed.time)))

\* log_likelihood(B, d)
CensoredTerm == censored_log_likelihood(dist.fmt, dist.cast, sample.censored, dist)

CompositeEvaluated == pc = "evaluated" /\ input.kind \in {"events", "intervals"}

\* C7: log_likelihood(PartiallyObserved{A, B}, d) is log_likelihood(A, d) +
\* log_likelihood(B, d), with log_likelihood(A, d) = log_hazard(A.time) -
\* cumulative_hazard(A.time); nothing else is added, negated or rescaled.
C7_CompositionAdditivity ==
    CompositeEvaluated =>
        IF CensoredTerm.kind = "panic" THEN ret.kind = "panic"
        ELSE /\ ret.kind = "scalar"
             /\ ret.v = FAdd(dist.fmt, ObservedTerm, CensoredTerm.v)

C7_Witness ==
    /\ CompositeEvaluated
    /\ Len(sample.observed.time) = 2
    /\ sample.censored.scheme = "RightCensored"
    /\ Len(sample.censored.time) = 1
    /\ ret.kind = "scalar"
    /\ IsFin(ret.v)
    /\ ~IsZero(CensoredTerm.v)
    /\ ~IsZero(SumCumulativeHazard(2))
    /\ ~IsZero(SumLogHazard(2))

====
